---- MODULE Spec2Model ----
(***************************************************************************)
(* Best-execution quoting service of triumph-project.                      *)
(*                                                                         *)
(*   controllers/orders  BuyHandler / SellHandler   (HTTP boundary)        *)
(*   services/order      OrderService.Buy / Sell    (the selector)         *)
(*   services/exchange   Coinbase/Kraken GetPrices  (the adapters)         *)
(*                                                                         *)
(* float64 values are modelled as exact decimal floats [m, e] standing for *)
(* m * 10^e, normalised so that m has no trailing zero (and zero is        *)
(* [0, 0]); equality of floats is then equality of records.  NaN, the      *)
(* infinities and rounding are outside the model.                          *)
(***************************************************************************)
EXTENDS Integers, Sequences, FiniteSets, TLC

VARIABLES
    exchanges,      \* OrderService.exchanges: the adapters, by GetName()
    pc,             \* "idle" | "buy" | "sell" | "done" | "crashed"
    req,            \* the query of the request being served
    amount,         \* the amount handed to OrderService.Buy / Sell
    idx,            \* position of the range loop over o.exchanges
    bestPrice,      \* local of Buy / Sell
    bestExchanges,  \* local of Buy / Sell
    quotes,         \* what each GetPrices call of this request returned
    ret,            \* what Buy / Sell returned
    http,           \* the response the handler wrote
    wire,           \* (adapter runs) the response the exchange sent
    quote,          \* (adapter runs) what GetPrices returned for it
    ctx,            \* (cancellation runs) the request's context
    inflight,       \* (cancellation runs) response read, call not yet returned
    calls           \* (concurrent runs) the locals of each running call

vars == <<exchanges, pc, req, amount, idx, bestPrice, bestExchanges,
          quotes, ret, http, wire, quote, ctx, inflight, calls>>

\* The variables the single-request runs leave alone.
others == <<ctx, inflight, calls>>

\* Longest adapter list handed to NewOrderService.
MaxAdapters == 2

\* Calls of Buy / Sell that may run at the same time.
NumCalls == 2

-----------------------------------------------------------------------------
(* float64 *)

F(m, e) == [m |-> m, e |-> e]

Zero == F(0, 0)

RECURSIVE Pow10(_)
Pow10(n) == IF n = 0 THEN 1 ELSE 10 * Pow10(n - 1)

RECURSIVE Norm(_, _)
Norm(m, e) ==
    IF m = 0 THEN Zero
    ELSE IF m % 10 = 0 THEN Norm(m \div 10, e + 1)
    ELSE F(m, e)

\* a * b
Mul(a, b) == Norm(a.m * b.m, a.e + b.e)

\* a < b.  Mantissas are below 10^10, so ten decades of exponent decide.
Lt(a, b) ==
    IF a.m = 0 \/ b.m = 0 \/ ((a.m < 0) # (b.m < 0)) THEN a.m < b.m
    ELSE IF a.e = b.e THEN a.m < b.m
    ELSE IF a.e > b.e
         THEN (IF a.e - b.e >= 10 THEN a.m < 0
               ELSE a.m * Pow10(a.e - b.e) < b.m)
         ELSE (IF b.e - a.e >= 10 THEN b.m > 0
               ELSE a.m < b.m * Pow10(b.e - a.e))

\* strconv.ParseFloat(text, 64) on the texts the model sends.
ParseFloat(text) ==
    CASE text = "0"     -> [ok |-> TRUE, val |-> Zero]
      [] text = "0.5"   -> [ok |-> TRUE, val |-> F(5, -1)]
      [] text = "-1"    -> [ok |-> TRUE, val |-> F(-1, 0)]
      [] text = "9900"  -> [ok |-> TRUE, val |-> F(99, 2)]
      [] text = "10000" -> [ok |-> TRUE, val |-> F(1, 4)]
      [] text = "1e18"  -> [ok |-> TRUE, val |-> F(1, 18)]
      [] OTHER          -> [ok |-> FALSE, val |-> Zero]

-----------------------------------------------------------------------------
(* What an exchange can send back *)

ExchangeNames == {"coinbase", "kraken"}

\* Texts of a top-of-book price field.
PriceTexts == {"junk", "0", "9900", "10000", "1e18"}

\* A decoded JSON value of type any: a string, or a number (float64).
JsonValues ==
    {[type |-> "string", text |-> t] : t \in PriceTexts}
        \cup {[type |-> "number", text |-> "9900"]}

\* One side of a book, [][]any: no level, a level without fields, or one
\* level whose first field is the price.
BookSides == {<<>>, << <<>> >>} \cup {<< <<v>> >> : v \in JsonValues}

\* status: "neterr" client.Do failed (timeout, refused, cancelled context);
\*         "badjson" the body did not decode; "ok" it decoded.
CoinbaseWire ==
    {[status |-> s, error |-> <<>>, result |-> <<>>, bids |-> <<>>, asks |-> <<>>]
        : s \in {"neterr", "badjson"}}
    \cup {[status |-> "ok", error |-> <<>>, result |-> <<>>, bids |-> b, asks |-> a]
        : b \in BookSides, a \in BookSides}

\* result holds the entries of the result mapping (none or one).
KrakenWire ==
    {[status |-> s, error |-> <<>>, result |-> <<>>, bids |-> <<>>, asks |-> <<>>]
        : s \in {"neterr", "badjson"}}
    \cup {[status |-> "ok", error |-> err, result |-> <<>>, bids |-> <<>>, asks |-> <<>>]
        : err \in {<<>>, <<"EQuery:Unknown asset pair">>}}
    \cup {[status |-> "ok", error |-> err,
           result |-> <<[bids |-> b, asks |-> a]>>, bids |-> <<>>, asks |-> <<>>]
        : err \in {<<>>, <<"EQuery:Unknown asset pair">>},
          b \in BookSides, a \in BookSides}

WireOf(name) == IF name = "coinbase" THEN CoinbaseWire ELSE KrakenWire

-----------------------------------------------------------------------------
(* services/exchange: the adapters *)

\* return ask, bid, nil
Pair(ask, bid) == [kind |-> "ok", ask |-> ask, bid |-> bid]

\* return 0, 0, fmt.Errorf(...)
Failure == [kind |-> "err", ask |-> Zero, bid |-> Zero]

\* a failed type assertion x.(string): the goroutine panics
Panic == [kind |-> "panic", ask |-> Zero, bid |-> Zero]

\* The tail of both adapters once bids and asks are at hand: the presence
\* checks, then the two conversions, bid first.
ReadBook(bids, asks) ==
    IF Len(bids) = 0 \/ Len(bids[1]) = 0 THEN Failure
    ELSE IF Len(asks) = 0 \/ Len(asks[1]) = 0 THEN Failure
    ELSE IF bids[1][1].type # "string" THEN Panic
    ELSE IF ~ParseFloat(bids[1][1].text).ok THEN Failure
    ELSE IF asks[1][1].type # "string" THEN Panic
    ELSE IF ~ParseFloat(asks[1][1].text).ok THEN Failure
    ELSE Pair(ParseFloat(asks[1][1].text).val, ParseFloat(bids[1][1].text).val)

CoinbaseGetPrices(w) ==
    IF w.status = "neterr" THEN Failure
    ELSE IF w.status = "badjson" THEN Failure
    ELSE ReadBook(w.bids, w.asks)

\* var ask, bid float64; the range loop over Result runs once per entry and
\* not at all for an empty mapping.
KrakenGetPrices(w) ==
    IF w.status = "neterr" THEN Failure
    ELSE IF w.status = "badjson" THEN Failure
    ELSE IF Len(w.error) # 0 THEN Failure
    ELSE IF Len(w.result) = 0 THEN Pair(Zero, Zero)
    ELSE ReadBook(w.result[1].bids, w.result[1].asks)

\* Dynamic dispatch of Exchange.GetPrices.
GetPrices(name, w) ==
    IF name = "coinbase" THEN CoinbaseGetPrices(w) ELSE KrakenGetPrices(w)

-----------------------------------------------------------------------------
(* services/order: the selector *)

\* bestPrice := 1e18
BuySentinel == F(1, 18)

\* bestPrice := 0.0
SellSentinel == Zero

\* A Quote Result of the running call, as the selector saw it.
Quoted(i, name, q) ==
    [idx |-> i, name |-> name, kind |-> q.kind, ask |-> q.ask, bid |-> q.bid]

\* One turn of Buy's loop body on the locals st = [bestPrice, bestExchanges].
BuyStepLastTie(st, q, name) ==
    IF q.kind = "err" THEN st
    ELSE IF Lt(q.ask, st.bestPrice) \/ q.ask = st.bestPrice
         THEN [bestPrice |-> q.ask, bestExchanges |-> <<name>>]
    ELSE st

BuyStep(st, q, name) ==
    IF q.kind = "err" THEN st
    ELSE IF Lt(q.ask, st.bestPrice)
         THEN [bestPrice |-> q.ask, bestExchanges |-> <<name>>]
    ELSE IF q.ask = st.bestPrice
         THEN [st EXCEPT !.bestExchanges = Append(@, name)]
    ELSE st

\* One turn of Sell's loop body.
SellStepLastWins(st, q, name) ==
    IF q.kind = "err" THEN st
    ELSE [bestPrice |-> q.bid, bestExchanges |-> <<name>>]

SellStep(st, q, name) ==
    IF q.kind = "err" THEN st
    ELSE IF Lt(st.bestPrice, q.bid)
         THEN [bestPrice |-> q.bid, bestExchanges |-> <<name>>]
    ELSE IF q.bid = st.bestPrice
         THEN [st EXCEPT !.bestExchanges = Append(@, name)]
    ELSE st

\* fmt.Errorf("failed to find best price for %s", symbol)
NoPriceError(symbol) == <<"failed to find best price for", symbol>>

\* A return value (float64, []string, error); isNil tells a nil slice from
\* an empty one, err = <<>> is the nil error.
Returned(usd, names, isNil, err) ==
    [returned |-> TRUE, usdAmount |-> usd, exchanges |-> names,
     isNil |-> isNil, err |-> err]

NoRet ==
    [returned |-> FALSE, usdAmount |-> Zero, exchanges |-> <<>>,
     isNil |-> TRUE, err |-> <<>>]

\* Buy after its loop.
BuyResultPartial(st, amt, symbol) ==
    IF st.bestPrice = BuySentinel
    THEN Returned(Zero, st.bestExchanges, FALSE, NoPriceError(symbol))
    ELSE Returned(Mul(amt, st.bestPrice), st.bestExchanges, FALSE, <<>>)

BuyResult(st, amt, symbol) ==
    IF st.bestPrice = BuySentinel
    THEN Returned(Zero, <<>>, TRUE, NoPriceError(symbol))
    ELSE Returned(Mul(amt, st.bestPrice), st.bestExchanges, FALSE, <<>>)

\* Sell after its loop.
SellResult(st, amt, symbol) ==
    IF st.bestPrice = SellSentinel
    THEN Returned(Zero, <<>>, TRUE, NoPriceError(symbol))
    ELSE Returned(Mul(amt, st.bestPrice), st.bestExchanges, FALSE, <<>>)

\* Buy's range loop over adapters that returned qs, from the locals st.
RECURSIVE BuyLoop(_, _)
BuyLoop(qs, st) ==
    IF qs = <<>> THEN st
    ELSE BuyLoop(Tail(qs), BuyStep(st, Head(qs), Head(qs).name))

\* Sell's range loop.
RECURSIVE SellLoop(_, _)
SellLoop(qs, st) ==
    IF qs = <<>> THEN st
    ELSE SellLoop(Tail(qs), SellStep(st, Head(qs), Head(qs).name))

\* OrderService.Buy on adapters returning qs.
Buy(qs, amt, symbol) ==
    BuyResult(BuyLoop(qs, [bestPrice |-> BuySentinel, bestExchanges |-> <<>>]),
              amt, symbol)

\* OrderService.Sell on adapters returning qs.
Sell(qs, amt, symbol) ==
    SellResult(SellLoop(qs, [bestPrice |-> SellSentinel, bestExchanges |-> <<>>]),
               amt, symbol)

-----------------------------------------------------------------------------
(* controllers/orders: the handlers *)

Symbols == {"BTC", "ETH"}

\* Texts of the amount query parameter ("" is a missing parameter).
AmountTexts == {"", "junk", "0", "0.5", "-1"}

\* fiber's c.QueryFloat(key, defaultValue): the default when the parameter
\* is missing or does not parse.
QueryFloat(text, default) ==
    IF ParseFloat(text).ok THEN ParseFloat(text).val ELSE default

NoHttp ==
    [status |-> 0, error |-> <<>>, coin |-> "", amount |-> Zero,
     usdAmount |-> Zero, exchange |-> <<>>]

\* c.Status(http.StatusBadRequest).JSON(fiber.Map{"error": "invalid amount"})
BadRequest == [NoHttp EXCEPT !.status = 400, !.error = <<"invalid amount">>]

\* What the handler writes once Buy / Sell has returned r.
Respond(rq, amt, r) ==
    IF r.err # <<>>
    THEN [NoHttp EXCEPT !.status = 500, !.error = r.err]
    ELSE [status |-> 200, error |-> <<>>, coin |-> rq.symbol, amount |-> amt,
          usdAmount |-> r.usdAmount, exchange |-> r.exchanges]

NoReq == [path |-> "", amount |-> "", symbol |-> ""]

NoWire == [name |-> "", body |-> [status |-> "", error |-> <<>>, result |-> <<>>,
                                  bids |-> <<>>, asks |-> <<>>]]

NoQuote == [kind |-> "", ask |-> Zero, bid |-> Zero]

\* A context that is not cancelled.  returned and received record, once it
\* is, how many adapters had returned and whether the adapter in flight had
\* already read its response.
Background == [cancelled |-> FALSE, returned |-> 0, received |-> FALSE]

-----------------------------------------------------------------------------
(* The service: one request at a time, one step per adapter call *)

AdapterLists ==
    UNION {[1..n -> ExchangeNames] : n \in 0..MaxAdapters}

\* order.NewOrderService(exchanges...) and orders.NewOrderController
Init ==
    /\ exchanges \in AdapterLists
    /\ pc = "idle"
    /\ req = NoReq
    /\ amount = Zero
    /\ idx = 1
    /\ bestPrice = Zero
    /\ bestExchanges = <<>>
    /\ quotes = <<>>
    /\ ret = NoRet
    /\ http = NoHttp
    /\ wire = NoWire
    /\ quote = NoQuote
    /\ ctx = Background
    /\ inflight = NoWire
    /\ calls = <<>>

\* The head of a handler: parse and check the amount, read the symbol and
\* enter dir's selector, whose locals start at the sentinel.
Accept(path, dir, sentinel, text, sym) ==
    /\ pc \in {"idle", "done"}
    /\ req' = [path |-> path, amount |-> text, symbol |-> sym]
    /\ amount' = QueryFloat(text, Zero)
    /\ IF QueryFloat(text, Zero) = Zero
       THEN /\ pc' = "done"
            /\ http' = BadRequest
            /\ bestPrice' = Zero
       ELSE /\ pc' = dir
            /\ http' = NoHttp
            /\ bestPrice' = sentinel
    /\ idx' = 1
    /\ bestExchanges' = <<>>
    /\ quotes' = <<>>
    /\ ret' = NoRet
    /\ UNCHANGED <<exchanges, wire, quote>>

\* GET /buy?amount=text&symbol=sym up to the first adapter call
BuyHandler(text, sym) == Accept("/buy", "buy", BuySentinel, text, sym)

\* GET /sell?amount=text&symbol=sym up to the first adapter call
SellHandler(text, sym) == Accept("/sell", "sell", SellSentinel, text, sym)

\* The locals after the loop body has seen q; a panic unwinds the call.
Scan(q, st) ==
    /\ quotes' = Append(quotes, Quoted(idx, exchanges[idx], q))
    /\ IF q.kind = "panic"
       THEN /\ pc' = "crashed"
            /\ UNCHANGED <<idx, bestPrice, bestExchanges>>
       ELSE /\ pc' = pc
            /\ idx' = idx + 1
            /\ bestPrice' = st.bestPrice
            /\ bestExchanges' = st.bestExchanges
    /\ UNCHANGED <<exchanges, req, amount, ret, http, wire, quote>>

Locals == [bestPrice |-> bestPrice, bestExchanges |-> bestExchanges]

\* One iteration of Buy's loop: the adapter's call and the comparison.
BuyGetPrices ==
    /\ pc = "buy"
    /\ idx <= Len(exchanges)
    /\ \E w \in WireOf(exchanges[idx]) :
          LET q == GetPrices(exchanges[idx], w)
          IN  Scan(q, BuyStep(Locals, q, exchanges[idx]))

\* One iteration of Sell's loop.
SellGetPrices ==
    /\ pc = "sell"
    /\ idx <= Len(exchanges)
    /\ \E w \in WireOf(exchanges[idx]) :
          LET q == GetPrices(exchanges[idx], w)
          IN  Scan(q, SellStep(Locals, q, exchanges[idx]))

\* Buy returns and BuyHandler writes the response.
BuyReturn ==
    /\ pc = "buy"
    /\ idx > Len(exchanges)
    /\ ret' = BuyResult(Locals, amount, req.symbol)
    /\ http' = Respond(req, amount, BuyResult(Locals, amount, req.symbol))
    /\ pc' = "done"
    /\ UNCHANGED <<exchanges, req, amount, idx, bestPrice, bestExchanges,
                   quotes, wire, quote>>

\* Sell returns and SellHandler writes the response.
SellReturn ==
    /\ pc = "sell"
    /\ idx > Len(exchanges)
    /\ ret' = SellResult(Locals, amount, req.symbol)
    /\ http' = Respond(req, amount, SellResult(Locals, amount, req.symbol))
    /\ pc' = "done"
    /\ UNCHANGED <<exchanges, req, amount, idx, bestPrice, bestExchanges,
                   quotes, wire, quote>>

Next ==
    \/ UNCHANGED others /\ \E text \in AmountTexts, sym \in Symbols : BuyHandler(text, sym)
    \/ UNCHANGED others /\ \E text \in AmountTexts, sym \in Symbols : SellHandler(text, sym)
    \/ UNCHANGED others /\ BuyGetPrices
    \/ UNCHANGED others /\ SellGetPrices
    \/ UNCHANGED others /\ BuyReturn
    \/ UNCHANGED others /\ SellReturn

Spec == Init /\ [][Next]_vars

-----------------------------------------------------------------------------
(* The adapters alone: main's two exchanges, each answering a call *)

\* initializeService: order.NewOrderService(coinbase, kraken)
InitAdapters ==
    /\ exchanges = <<"coinbase", "kraken">>
    /\ pc = "idle"
    /\ req = NoReq
    /\ amount = Zero
    /\ idx = 1
    /\ bestPrice = Zero
    /\ bestExchanges = <<>>
    /\ quotes = <<>>
    /\ ret = NoRet
    /\ http = NoHttp
    /\ wire = NoWire
    /\ quote = NoQuote
    /\ ctx = Background
    /\ inflight = NoWire
    /\ calls = <<>>

Call(name, w, q) ==
    /\ wire' = [name |-> name, body |-> w]
    /\ quote' = q
    /\ UNCHANGED <<exchanges, pc, req, amount, idx, bestPrice, bestExchanges,
                   quotes, ret, http>>

\* (*CoinbaseExchange).GetPrices on the response w
CoinbaseCall == \E w \in CoinbaseWire : Call("coinbase", w, CoinbaseGetPrices(w))

\* (*KrakenExchange).GetPrices on the response w
KrakenCall == \E w \in KrakenWire : Call("kraken", w, KrakenGetPrices(w))

NextAdapters ==
    \/ UNCHANGED others /\ CoinbaseCall
    \/ UNCHANGED others /\ KrakenCall

AdapterSpec == InitAdapters /\ [][NextAdapters]_vars

-----------------------------------------------------------------------------
(* A request whose context may be cancelled at any moment.  An adapter call *)
(* is two steps: the network exchange (client.Do and the decoding of the    *)
(* body, which watch the context) and the rest of GetPrices with the loop   *)
(* body of the selector (which do not).                                     *)

\* What http.NewRequestWithContext(ctx, ...), client.Do(req) and the
\* decoding of resp.Body can yield: with ctx cancelled, only an error.
RoundTripNoCtx(name, cancelled) == WireOf(name)

RoundTrip(name, cancelled) ==
    IF cancelled
    THEN {w \in WireOf(name) : w.status \in {"neterr", "badjson"}}
    ELSE WireOf(name)

\* initializeService, as InitAdapters
InitCancel == InitAdapters

\* A request arrives with a fresh context.
ServeBuy ==
    /\ BuyHandler("0.5", "BTC")
    /\ ctx' = Background
    /\ inflight' = NoWire
    /\ UNCHANGED calls

ServeSell ==
    /\ SellHandler("0.5", "BTC")
    /\ ctx' = Background
    /\ inflight' = NoWire
    /\ UNCHANGED calls

\* The context of the running request is cancelled.
Cancel ==
    /\ pc \in {"buy", "sell"}
    /\ ~ctx.cancelled
    /\ ctx' = [cancelled |-> TRUE, returned |-> Len(quotes),
               received |-> inflight # NoWire]
    /\ UNCHANGED <<exchanges, pc, req, amount, idx, bestPrice, bestExchanges,
                   quotes, ret, http, wire, quote, inflight, calls>>

\* GetPrices of the adapter at idx up to the decoded response.
Exchange ==
    /\ pc \in {"buy", "sell"}
    /\ idx <= Len(exchanges)
    /\ inflight = NoWire
    /\ \E w \in RoundTrip(exchanges[idx], ctx.cancelled) :
          inflight' = [name |-> exchanges[idx], body |-> w]
    /\ UNCHANGED <<exchanges, pc, req, amount, idx, bestPrice, bestExchanges,
                   quotes, ret, http, wire, quote, ctx, calls>>

\* The rest of GetPrices and Buy's loop body.
BuyDeliver ==
    /\ pc = "buy"
    /\ inflight # NoWire
    /\ LET q == GetPrices(inflight.name, inflight.body)
       IN  Scan(q, BuyStep(Locals, q, exchanges[idx]))
    /\ inflight' = NoWire
    /\ UNCHANGED <<ctx, calls>>

\* The rest of GetPrices and Sell's loop body.
SellDeliver ==
    /\ pc = "sell"
    /\ inflight # NoWire
    /\ LET q == GetPrices(inflight.name, inflight.body)
       IN  Scan(q, SellStep(Locals, q, exchanges[idx]))
    /\ inflight' = NoWire
    /\ UNCHANGED <<ctx, calls>>

NextCancel ==
    \/ ServeBuy
    \/ ServeSell
    \/ Cancel
    \/ Exchange
    \/ BuyDeliver
    \/ SellDeliver
    \/ UNCHANGED others /\ BuyReturn
    \/ UNCHANGED others /\ SellReturn

CancelSpec == InitCancel /\ [][NextCancel]_vars

-----------------------------------------------------------------------------
(* Calls of Buy and Sell running at the same time on main's one            *)
(* OrderService, as fiber serves each request on a goroutine of its own.   *)
(* The calls interleave at their adapter calls.                            *)

CallIds == 1..NumCalls

\* The variables a concurrent run leaves alone, but for exchanges.
single == <<pc, req, amount, idx, bestPrice, bestExchanges,
            quotes, ret, http, wire, quote, ctx, inflight>>

\* The frame of a call not running.  overlap records that another call was
\* in the middle of its scan when this one was entered.
NoCall ==
    [pc |-> "idle", path |-> "", amount |-> Zero, symbol |-> "", idx |-> 1,
     bestPrice |-> Zero, bestExchanges |-> <<>>, quotes |-> <<>>,
     ret |-> NoRet, overlap |-> FALSE]

\* The responses of these runs: a failed exchange, and books with the same
\* top entry on both sides, its price 9900 (at Kraken also 10000) or no
\* text.
ConcCoinbase ==
    {w \in CoinbaseWire :
        \/ w.status = "neterr"
        \/ /\ w.status = "ok" /\ w.bids = w.asks
           /\ \/ CoinbaseGetPrices(w).kind = "panic"
              \/ /\ CoinbaseGetPrices(w).kind = "ok"
                 /\ CoinbaseGetPrices(w).ask \in {F(99, 2)}}

ConcKraken ==
    {w \in KrakenWire :
        \/ w.status = "neterr"
        \/ /\ w.status = "ok" /\ w.error = <<>> /\ w.result # <<>>
           /\ w.result[1].bids = w.result[1].asks
           /\ \/ KrakenGetPrices(w).kind = "panic"
              \/ /\ KrakenGetPrices(w).kind = "ok"
                 /\ KrakenGetPrices(w).ask \in {F(99, 2), F(1, 4)}}

ConcWire(name) == IF name = "coinbase" THEN ConcCoinbase ELSE ConcKraken

\* initializeService; no call is running.
InitConc ==
    /\ exchanges = <<"coinbase", "kraken">>
    /\ pc = "idle"
    /\ req = NoReq
    /\ amount = Zero
    /\ idx = 1
    /\ bestPrice = Zero
    /\ bestExchanges = <<>>
    /\ quotes = <<>>
    /\ ret = NoRet
    /\ http = NoHttp
    /\ wire = NoWire
    /\ quote = NoQuote
    /\ ctx = Background
    /\ inflight = NoWire
    /\ calls = [c \in CallIds |-> NoCall]

\* A panic of one goroutine ends the process.
Alive == \A c \in CallIds : calls[c].pc # "crashed"

\* bestPrice and bestExchanges of call c: locals of its own frame.
LocalsShared(c) ==
    [bestPrice |-> calls[1].bestPrice, bestExchanges |-> calls[1].bestExchanges]

LocalsOf(c) ==
    [bestPrice |-> calls[c].bestPrice, bestExchanges |-> calls[c].bestExchanges]

\* The frame of call c as it enters Buy or Sell (amount 0.5, symbol BTC).
Entered(c, path, dir, sentinel) ==
    [pc |-> dir, path |-> path, amount |-> F(5, -1), symbol |-> "BTC",
     idx |-> 1, bestPrice |-> sentinel, bestExchanges |-> <<>>,
     quotes |-> <<>>, ret |-> NoRet,
     overlap |-> \E d \in CallIds \ {c} :
                    calls[d].pc \in {"buy", "sell"} /\ calls[d].idx > 1]

\* Call c enters Buy.
EnterBuy(c) ==
    /\ Alive
    /\ calls[c].pc \in {"idle", "done"}
    /\ calls' = [calls EXCEPT ![c] = Entered(c, "/buy", "buy", BuySentinel)]
    /\ UNCHANGED <<exchanges, single>>

\* Call c enters Sell.
EnterSell(c) ==
    /\ Alive
    /\ calls[c].pc \in {"idle", "done"}
    /\ calls' = [calls EXCEPT ![c] = Entered(c, "/sell", "sell", SellSentinel)]
    /\ UNCHANGED <<exchanges, single>>

\* Call c's frame after its loop body has seen q.
Scanned(c, q, st) ==
    IF q.kind = "panic"
    THEN [calls[c] EXCEPT
            !.pc = "crashed",
            !.quotes = Append(@, Quoted(calls[c].idx, exchanges[calls[c].idx], q))]
    ELSE [calls[c] EXCEPT
            !.idx = @ + 1,
            !.bestPrice = st.bestPrice,
            !.bestExchanges = st.bestExchanges,
            !.quotes = Append(@, Quoted(calls[c].idx, exchanges[calls[c].idx], q))]

\* One iteration of the loop of call c, a Buy.
ConcBuyGetPrices(c) ==
    /\ Alive
    /\ calls[c].pc = "buy"
    /\ calls[c].idx <= Len(exchanges)
    /\ \E w \in ConcWire(exchanges[calls[c].idx]) :
          LET name == exchanges[calls[c].idx]
              q == GetPrices(name, w)
          IN  calls' = [calls EXCEPT ![c] =
                            Scanned(c, q, BuyStep(LocalsOf(c), q, name))]
    /\ UNCHANGED <<exchanges, single>>

\* One iteration of the loop of call c, a Sell.
ConcSellGetPrices(c) ==
    /\ Alive
    /\ calls[c].pc = "sell"
    /\ calls[c].idx <= Len(exchanges)
    /\ \E w \in ConcWire(exchanges[calls[c].idx]) :
          LET name == exchanges[calls[c].idx]
              q == GetPrices(name, w)
          IN  calls' = [calls EXCEPT ![c] =
                            Scanned(c, q, SellStep(LocalsOf(c), q, name))]
    /\ UNCHANGED <<exchanges, single>>

\* Call c returns.
ConcBuyReturn(c) ==
    /\ Alive
    /\ calls[c].pc = "buy"
    /\ calls[c].idx > Len(exchanges)
    /\ calls' = [calls EXCEPT
          ![c].ret = BuyResult(LocalsOf(c), calls[c].amount, calls[c].symbol),
          ![c].pc = "done"]
    /\ UNCHANGED <<exchanges, single>>

ConcSellReturn(c) ==
    /\ Alive
    /\ calls[c].pc = "sell"
    /\ calls[c].idx > Len(exchanges)
    /\ calls' = [calls EXCEPT
          ![c].ret = SellResult(LocalsOf(c), calls[c].amount, calls[c].symbol),
          ![c].pc = "done"]
    /\ UNCHANGED <<exchanges, single>>

NextConc ==
    \/ \E c \in CallIds : EnterBuy(c)
    \/ \E c \in CallIds : EnterSell(c)
    \/ \E c \in CallIds : ConcBuyGetPrices(c)
    \/ \E c \in CallIds : ConcSellGetPrices(c)
    \/ \E c \in CallIds : ConcBuyReturn(c)
    \/ \E c \in CallIds : ConcSellReturn(c)

ConcSpec == InitConc /\ [][NextConc]_vars

-----------------------------------------------------------------------------
(* Vocabulary of the properties *)

\* The call of Buy / Sell made for the request has returned.
CallReturned == pc = "done" /\ ret.returned

IsBuy == req.path = "/buy"

IsSell == req.path = "/sell"

\* Positions of the adapters whose GetPrices returned without error.
Succeeded(qs) == {k \in 1..Len(qs) : qs[k].kind = "ok"}

AllFailed(qs) == \A k \in 1..Len(qs) : qs[k].kind = "err"

MinAsk(qs) ==
    LET S == {qs[k].ask : k \in Succeeded(qs)}
    IN  CHOOSE a \in S : \A b \in S : ~Lt(b, a)

MaxBid(qs) ==
    LET S == {qs[k].bid : k \in Succeeded(qs)}
    IN  CHOOSE a \in S : \A b \in S : ~Lt(a, b)

NamesOf(qs) == [k \in 1..Len(qs) |-> qs[k].name]

\* Names, in list order, of the successful adapters asking / bidding price.
AskedAt(qs, price) ==
    LET Hit(q) == q.kind = "ok" /\ q.ask = price IN NamesOf(SelectSeq(qs, Hit))

BidAt(qs, price) ==
    LET Hit(q) == q.kind = "ok" /\ q.bid = price IN NamesOf(SelectSeq(qs, Hit))

Orderings(n) ==
    {p \in [1..n -> 1..n] : \A i, j \in 1..n : p[i] = p[j] => i = j}

Permuted(qs, p) == [k \in 1..Len(qs) |-> qs[p[k]]]

-----------------------------------------------------------------------------
(* Properties *)

\* C1: when at least one adapter succeeded and the amount is positive, Buy
\* returns amount * (the minimum ask among the successful adapters).
C1_BuyMinAsk ==
    (CallReturned /\ IsBuy /\ Lt(Zero, amount) /\ Succeeded(quotes) # {})
        => /\ ret.err = <<>>
           /\ ret.usdAmount = Mul(amount, MinAsk(quotes))

\* C2: when at least one adapter succeeded and the amount is positive, Sell
\* returns amount * (the maximum bid among the successful adapters).
C2_SellMaxBid ==
    (CallReturned /\ IsSell /\ Lt(Zero, amount) /\ Succeeded(quotes) # {})
        => /\ ret.err = <<>>
           /\ ret.usdAmount = Mul(amount, MaxBid(quotes))

\* C3: whenever some adapter returned without error, Buy and Sell return a
\* nil error, a non-empty winners list and amount * winning price; the
\* "no price" error is returned only when no adapter succeeded, whatever
\* prices the successful adapters returned.
C3_ResultWheneverSuccess ==
    CallReturned =>
        /\ (Succeeded(quotes) # {}) =>
              /\ ret.err = <<>>
              /\ Len(ret.exchanges) > 0
              /\ ret.usdAmount = Mul(amount, bestPrice)
        /\ (ret.err # <<>>) => Succeeded(quotes) = {}

\* C4: when every adapter returned a Failure (or the list is empty), Buy
\* and Sell return the error naming the requested symbol, amount 0 and a
\* nil winners list.
C4_AllFailedNoPrice ==
    (CallReturned /\ AllFailed(quotes)) =>
        /\ ret.err = <<"failed to find best price for", req.symbol>>
        /\ ret.usdAmount = Zero
        /\ ret.isNil
        /\ ret.exchanges = <<>>

C4_Witness ==
    /\ CallReturned
    /\ Len(quotes) = 2
    /\ AllFailed(quotes)
    /\ ret.err # <<>>

\* C5: in every result returned without error, the winners are exactly the
\* names of the successful adapters whose ask (Buy) or bid (Sell) is the
\* winning price, each once, in the order of the adapter list.
C5_WinnersAreTheTied ==
    (CallReturned /\ ret.err = <<>>) =>
        /\ Succeeded(quotes) # {}
        /\ ~ret.isNil
        /\ IsBuy => ret.exchanges = AskedAt(quotes, MinAsk(quotes))
        /\ IsSell => ret.exchanges = BidAt(quotes, MaxBid(quotes))

C5_Witness ==
    /\ CallReturned
    /\ IsBuy
    /\ ret.exchanges = <<"kraken", "coinbase">>
    /\ quotes[1].ask = quotes[2].ask

\* C6: during one call every adapter is invoked exactly once, in list
\* order, and the call ends only after the last adapter was invoked.
C6_EveryAdapterOnce ==
    /\ \A k \in 1..Len(quotes) : quotes[k].idx = k
    /\ (CallReturned \/ pc = "crashed") => Len(quotes) = Len(exchanges)

\* C7: the amount returned and whether the call fails are the same for
\* every permutation of the adapters (with the outcomes they gave); the
\* winners are the same adapters, in the permuted list's order.
C7_PermutationInvariant ==
    CallReturned =>
        \A p \in Orderings(Len(quotes)) :
            LET qs == Permuted(quotes, p)
                r  == IF IsBuy THEN Buy(qs, amount, req.symbol)
                               ELSE Sell(qs, amount, req.symbol)
                Won(q) == /\ q.kind = "ok"
                          /\ ret.err = <<>>
                          /\ (IF IsBuy THEN q.ask ELSE q.bid) = bestPrice
            IN  /\ r.usdAmount = ret.usdAmount
                /\ r.err = ret.err
                /\ r.exchanges = NamesOf(SelectSeq(qs, Won))
                /\ ret.exchanges = NamesOf(SelectSeq(quotes, Won))

C7_Witness ==
    /\ CallReturned
    /\ IsSell
    /\ Len(quotes) = 2
    /\ quotes[1].kind = "ok" /\ quotes[2].kind = "ok"
    /\ Lt(quotes[2].bid, quotes[1].bid)
    /\ ret.exchanges = <<quotes[1].name>>

\* C8: a request whose amount is missing, unparsable or not positive is
\* answered 400 "invalid amount"; Buy / Sell is never entered with an
\* amount <= 0 and no adapter is consulted for it.
C8_NonPositiveRejected ==
    /\ pc \in {"buy", "sell"} => Lt(Zero, amount)
    /\ (pc # "idle" /\ ~Lt(Zero, QueryFloat(req.amount, Zero))) =>
          /\ http.status = 400
          /\ http.error = <<"invalid amount">>
          /\ quotes = <<>>
          /\ ~ret.returned

\* C9: for a request with a valid amount the handler answers 500 with the
\* selector's error text exactly when the selector returned its error, and
\* otherwise 200 with symbol, amount, computed amount and winners as
\* returned; a request in which only some adapters fail is answered 200.
C9_StatusFollowsSelector ==
    (CallReturned /\ Lt(Zero, amount)) =>
        /\ (http.status = 500 /\ http.error = ret.err) <=> (ret.err # <<>>)
        /\ (ret.err = <<>>) =>
              /\ http.status = 200
              /\ http.coin = req.symbol
              /\ http.amount = amount
              /\ http.usdAmount = ret.usdAmount
              /\ http.exchange = ret.exchanges
        /\ (Succeeded(quotes) # {} /\ ~AllFailed(quotes)
                /\ \E k \in 1..Len(quotes) : quotes[k].kind = "err")
              => http.status = 200

\* Both sides of the book the adapter reads hold a top-of-book price.
TopOfBook(w) ==
    LET book == IF w.name = "coinbase" THEN <<w.body>> ELSE w.body.result
    IN  /\ Len(book) > 0
        /\ Len(book[1].bids) > 0 /\ Len(book[1].bids[1]) > 0
        /\ Len(book[1].asks) > 0 /\ Len(book[1].asks[1]) > 0

\* C10: GetPrices returns a pair only when both ask and bid were read from
\* a top-of-book entry of the response; otherwise it returns a Failure.
C10_PairOnlyFromBook ==
    (quote.kind = "ok") => TopOfBook(wire)

\* The top-of-book price fields of the response, where both are present.
TopFields(w) ==
    LET book == IF w.name = "coinbase" THEN <<w.body>> ELSE w.body.result
    IN  {book[1].bids[1][1], book[1].asks[1][1]}

Convertible(v) == v.type = "string" /\ ParseFloat(v.text).ok

\* C11: every GetPrices call ends in a Price Pair or a Failure, never in a
\* panic; a price field that does not convert to a float (text that is no
\* number, or a JSON value that is no text) makes the call a Failure.
C11_PairOrFailureNeverPanic ==
    (wire # NoWire) =>
        /\ quote.kind \in {"ok", "err"}
        /\ (wire.body.status = "ok" /\ wire.body.error = <<>> /\ TopOfBook(wire)
                /\ \E v \in TopFields(wire) : ~Convertible(v))
              => quote.kind = "err"

\* What the selector returns on the quotes qs alone.
Alone(path, qs, amt, symbol) ==
    IF path = "/buy" THEN Buy(qs, amt, symbol) ELSE Sell(qs, amt, symbol)

ReadBefore == ctx.returned + (IF ctx.received THEN 1 ELSE 0)

C13_CallsIndependent ==
    /\ exchanges = <<"coinbase", "kraken">>
    /\ \A c \in CallIds :
          /\ (calls[c].pc = "buy") =>
                LocalsOf(c) = BuyLoop(calls[c].quotes,
                    [bestPrice |-> BuySentinel, bestExchanges |-> <<>>])
          /\ (calls[c].pc = "sell") =>
                LocalsOf(c) = SellLoop(calls[c].quotes,
                    [bestPrice |-> SellSentinel, bestExchanges |-> <<>>])
          /\ (calls[c].pc = "done") =>
                calls[c].ret = Alone(calls[c].path, calls[c].quotes,
                                     calls[c].amount, calls[c].symbol)

\* A Sell entered while a Buy was in the middle of its scan; both returned,
\* each with its own result.
C13_Witness ==
    /\ calls[1].pc = "done" /\ calls[1].path = "/buy"
    /\ calls[2].pc = "done" /\ calls[2].path = "/sell"
    /\ calls[2].overlap
    /\ calls[1].ret.usdAmount = F(495, 1)
    /\ calls[2].ret.usdAmount = F(5, 3)

-----------------------------------------------------------------------------
(* What does hold where C1-C3, C6 and C8-C10 fail (invariants of Spec, the   *)
(* last one of AdapterSpec): each failure is confined to the case named.     *)

\* Buy returns amount * minimum ask when that ask is below the sentinel.
BuyMinAskBelowSentinel ==
    (CallReturned /\ IsBuy /\ Lt(Zero, amount) /\ Succeeded(quotes) # {}
        /\ Lt(MinAsk(quotes), BuySentinel))
        => ret.err = <<>> /\ ret.usdAmount = Mul(amount, MinAsk(quotes))

\* Sell returns amount * maximum bid when that bid is above the sentinel.
SellMaxBidAboveSentinel ==
    (CallReturned /\ IsSell /\ Lt(Zero, amount) /\ Succeeded(quotes) # {}
        /\ Lt(SellSentinel, MaxBid(quotes)))
        => ret.err = <<>> /\ ret.usdAmount = Mul(amount, MaxBid(quotes))

\* A call that returns has invoked every adapter once, in order; a call
\* ends early only by a panic of the adapter invoked last.
ReturnedAfterEveryAdapter ==
    /\ \A k \in 1..Len(quotes) : quotes[k].idx = k
    /\ CallReturned => Len(quotes) = Len(exchanges)
    /\ pc = "crashed" => quotes[Len(quotes)].kind = "panic"

\* The handlers reject exactly the amounts that read as 0.
ZeroAmountRejected ==
    /\ pc \in {"buy", "sell"} => amount # Zero
    /\ (pc # "idle" /\ QueryFloat(req.amount, Zero) = Zero)
          => http = BadRequest /\ quotes = <<>> /\ ~ret.returned

\* The handler's status is 500 exactly on the selector's error.
StatusIsSelectorsError ==
    CallReturned =>
        /\ (http.status = 500 /\ http.error = ret.err) <=> (ret.err # <<>>)
        /\ (ret.err = <<>>) => http = Respond(req, amount, ret) /\ http.status = 200

\* A price text that is no number is a Failure; only a price field that is
\* no text makes the call panic.
PanicOnlyOnNonText ==
    (wire # NoWire) =>
        /\ quote.kind \in {"ok", "err", "panic"}
        /\ (quote.kind = "panic") =>
              /\ TopOfBook(wire)
              /\ \E v \in TopFields(wire) : v.type # "string"
        /\ (quote.kind = "ok" /\ TopOfBook(wire)) =>
              \A v \in TopFields(wire) : Convertible(v)

\* Apart from Kraken's empty result mapping, a pair comes from the book.
PairFromBookUnlessEmptyResult ==
    (quote.kind = "ok" /\ ~(wire.name = "kraken" /\ wire.body.result = <<>>))
        => TopOfBook(wire)

====
